---- MODULE Spec2Model ----
(***************************************************************************)
(* Model of src/label_generator.py: LabelGenerator.generate_labels and the *)
(* helpers it calls (read_data, get_background_color, draw_label).         *)
(*                                                                         *)
(* Lengths are integers in hundredths of a point (reportlab's inch is 72   *)
(* points), so every default of __init__ is represented exactly.           *)
(* Text is a sequence of one-character strings, so that endswith, `in`     *)
(* and lower() are computed character by character.                        *)
(***************************************************************************)
EXTENDS Integers, Sequences, FiniteSets, TLC

VARIABLES config, data_file, table, pc, df, idx, canvas, ops, tempFiles,
          saved, reported, error

vars == <<config, data_file, table, pc, df, idx, canvas, ops, tempFiles,
          saved, reported, error>>

----------------------------------------------------------------------------
(* Bounds of the model                                                     *)

MaxColumns == 3
MaxRows == 2
MaxRecords == 9
MaxRecordsDefault == 31
MaxGoodRowsBefore == 1
MaxFragments == 3

----------------------------------------------------------------------------
(* Text helpers                                                            *)

Upper == <<"A","B","C","D","E","F","G","H","I","J","K","L","M",
           "N","O","P","Q","R","S","T","U","V","W","X","Y","Z">>
LowerLetters == <<"a","b","c","d","e","f","g","h","i","j","k","l","m",
                  "n","o","p","q","r","s","t","u","v","w","x","y","z">>

LowerChar(c) ==
    IF \E i \in 1..Len(Upper) : Upper[i] = c
    THEN LowerLetters[CHOOSE i \in 1..Len(Upper) : Upper[i] = c]
    ELSE c

\* str.lower()
Lower(s) == [i \in 1..Len(s) |-> LowerChar(s[i])]

\* str.endswith(suffix)
EndsWith(s, suffix) ==
    /\ Len(suffix) <= Len(s)
    /\ SubSeq(s, Len(s) - Len(suffix) + 1, Len(s)) = suffix

\* needle in hay
Contains(needle, hay) ==
    \E i \in 0..(Len(hay) - Len(needle)) :
        SubSeq(hay, i + 1, i + Len(needle)) = needle

----------------------------------------------------------------------------
(* __init__ : default configuration and user overrides                     *)

Inch == 7200

DefaultConfig ==
    [ page_width   |-> (85 * Inch) \div 10,
      page_height  |-> 11 * Inch,
      label_width  |-> (2625 * Inch) \div 1000,
      label_height |-> 1 * Inch,
      columns      |-> 3,
      rows         |-> 10,
      top_margin   |-> (5 * Inch) \div 10,
      left_margin  |-> (19 * Inch) \div 100,
      h_gap        |-> (125 * Inch) \div 1000,
      v_gap        |-> 0 ]

\* self.config.update(config)
LabelGeneratorInit(override) ==
    [k \in DOMAIN DefaultConfig |->
        IF k \in DOMAIN override THEN override[k] ELSE DefaultConfig[k]]

----------------------------------------------------------------------------
(* read_data : the reader is chosen by the end of the path                 *)

ExtCsv  == <<".","c","s","v">>
ExtXlsx == <<".","x","l","s","x">>
ExtXls  == <<".","x","l","s">>

\* Mutant: the extension is compared without regard to case.
read_data_any_case(file_path) ==
    IF EndsWith(Lower(file_path), ExtCsv) THEN "read_csv"
    ELSE IF EndsWith(Lower(file_path), ExtXlsx)
            \/ EndsWith(Lower(file_path), ExtXls)
         THEN "read_excel"
         ELSE "ValueError"

read_data(file_path) ==
    IF EndsWith(file_path, ExtCsv) THEN "read_csv"
    ELSE IF EndsWith(file_path, ExtXlsx) \/ EndsWith(file_path, ExtXls)
         THEN "read_excel"
         ELSE "ValueError"

----------------------------------------------------------------------------
(* get_background_color : name -> reportlab color                          *)

KeyRed       == <<"r","e","d">>
KeyGreen     == <<"g","r","e","e","n">>
KeyBlue      == <<"b","l","u","e">>
KeyYellow    == <<"y","e","l","l","o","w">>
KeyOrange    == <<"o","r","a","n","g","e">>
KeyPurple    == <<"p","u","r","p","l","e">>
KeyPink      == <<"p","i","n","k">>
KeyGray      == <<"g","r","a","y">>
KeyLightgray == <<"l","i","g","h","t","g","r","a","y">>
KeyWhite     == <<"w","h","i","t","e">>

ColorKeys == {KeyRed, KeyGreen, KeyBlue, KeyYellow, KeyOrange, KeyPurple,
              KeyPink, KeyGray, KeyLightgray, KeyWhite}

color_dict ==
    [k \in ColorKeys |->
        CASE k = KeyRed       -> "colors.red"
          [] k = KeyGreen     -> "colors.green"
          [] k = KeyBlue      -> "colors.blue"
          [] k = KeyYellow    -> "colors.yellow"
          [] k = KeyOrange    -> "colors.orange"
          [] k = KeyPurple    -> "colors.purple"
          [] k = KeyPink      -> "colors.pink"
          [] k = KeyGray      -> "colors.gray"
          [] k = KeyLightgray -> "colors.lightgrey"
          [] k = KeyWhite     -> "colors.white"]

\* Mutant: the table is consulted without lower-casing the name.
get_background_color_exact_case(color_name) ==
    IF color_name \in DOMAIN color_dict
    THEN color_dict[color_name]
    ELSE "colors.white"

\* color_dict.get(color_name.lower(), colors.white)
get_background_color(color_name) ==
    IF Lower(color_name) \in DOMAIN color_dict
    THEN color_dict[Lower(color_name)]
    ELSE "colors.white"

----------------------------------------------------------------------------
(* draw_label : header of the middle section                               *)

STOWAGE == <<"S","T","O","W","A","G","E">>
CHILLER == <<"C","H","I","L","L","E","R">>
FROZEN  == <<"F","R","O","Z","E","N">>

\* Mutant: CHILLER is tested before STOWAGE.
header_text_chiller_first(qr_value) ==
    IF Contains(CHILLER, qr_value) THEN "CHILLED"
    ELSE IF Contains(STOWAGE, qr_value) THEN "AMBIENT"
    ELSE IF Contains(FROZEN, qr_value) THEN "FREEZER"
    ELSE "AMBIENT"

header_text(qr_value) ==
    IF Contains(STOWAGE, qr_value) THEN "AMBIENT"
    ELSE IF Contains(CHILLER, qr_value) THEN "CHILLED"
    ELSE IF Contains(FROZEN, qr_value) THEN "FREEZER"
    ELSE "AMBIENT"

\* f"temp_qr_{aisle}_{ambient}.png"
temp_qr_file(aisle, ambient) == <<"temp_qr", aisle, ambient, "png">>

----------------------------------------------------------------------------
(* generate_labels : grid arithmetic                                       *)

labels_per_page(cfg) == cfg.columns * cfg.rows

position_on_page(i, cfg) == i % labels_per_page(cfg)

\* Mutant: the row is found by dividing by the number of rows.
row_num_by_rows(i, cfg) == position_on_page(i, cfg) \div cfg.rows

row_num(i, cfg) == position_on_page(i, cfg) \div cfg.columns

col_num(i, cfg) == position_on_page(i, cfg) % cfg.columns

\* Mutant: the first label also starts a new page.
new_page_first_too(i, cfg) == position_on_page(i, cfg) = 0

\* if position_on_page == 0 and idx > 0: c.showPage()
new_page(i, cfg) == position_on_page(i, cfg) = 0 /\ i > 0

\* Mutant: the horizontal offset follows the row instead of the column.
label_x_by_row(i, cfg) ==
    cfg.left_margin + row_num(i, cfg) * (cfg.label_width + cfg.h_gap)

label_x(i, cfg) ==
    cfg.left_margin + col_num(i, cfg) * (cfg.label_width + cfg.h_gap)

\* Mutant: the top edge of the row is used instead of its bottom edge.
label_y_top_edge(i, cfg) ==
    cfg.page_height - cfg.top_margin
        - row_num(i, cfg) * cfg.label_height
        - row_num(i, cfg) * cfg.v_gap

label_y(i, cfg) ==
    cfg.page_height - cfg.top_margin
        - (row_num(i, cfg) + 1) * cfg.label_height
        - row_num(i, cfg) * cfg.v_gap

\* Mutant: plain division plus one.
page_count_plain(total_labels, per_page) == total_labels \div per_page + 1

\* (total_labels-1)//labels_per_page + 1
page_count(total_labels, per_page) == (total_labels - 1) \div per_page + 1

----------------------------------------------------------------------------
(* Inputs: configurations, paths and tables                                *)

\* A cell of the data frame: text, or NaN for an empty cell.
Text(s) == [isText |-> TRUE, text |-> s]
NaN == [isText |-> FALSE, text |-> <<>>]

Fields == {"aisle", "ambient", "color", "qr_value"}

GoodRow ==
    [aisle |-> "A12", ambient |-> "B3", color |-> Text(KeyBlue),
     qr_value |-> Text(STOWAGE \o <<"-","A","1","2">>)]

GoodRows(n) == [i \in 1..n |-> GoodRow]

Table(fields, rows) == [fields |-> fields, rows |-> rows]

\* Geometry overrides a caller may pass to __init__; none is validated.
Geometries ==
    { [h_gap |-> DefaultConfig.h_gap],
      [h_gap |-> 0 - DefaultConfig.label_width],
      [h_gap |-> 0 - DefaultConfig.label_width - 900],
      [h_gap |-> 0, label_width |-> 0],
      [v_gap |-> 900, left_margin |-> 0 - 1368, top_margin |-> 0] }

Grid(c, r) == [columns |-> c, rows |-> r]

Merge(f, g) ==
    [k \in (DOMAIN f) \cup (DOMAIN g) |-> IF k \in DOMAIN f THEN f[k] ELSE g[k]]

Configs ==
    { LabelGeneratorInit(Merge(Grid(c, r), g)) :
        c \in 0..MaxColumns, r \in 0..MaxRows, g \in Geometries }

SmallConfig == LabelGeneratorInit(Grid(2, 2))

PathCsv == <<"a",".","c","s","v">>

Stems == { <<>>, <<"a">>, <<"a",".","x","l","s">>, <<"d","i","r",".","c","s","v","/","a">> }

Endings ==
    { ExtCsv, ExtXlsx, ExtXls, <<>>, <<".","C","S","V">>, <<".","t","x","t">>, <<"c","s","v">>, <<".","x","l","s","m">>, <<".","x","l">>, <<".","c","s","v","x">>, <<".">>, <<".","X","l","s">>, <<".","c","s","v"," ">> }

Paths == { stem \o ending : stem \in Stems, ending \in Endings }

QrFragments ==
    { STOWAGE, CHILLER, FROZEN, <<"S","T","O","W">>, <<"A","G","E">>, <<"-","A","1">>, <<"c","h","i","l","l","e","r">>, <<"N">> }

RECURSIVE Concats(_)
Concats(n) ==
    IF n = 0 THEN { <<>> }
    ELSE Concats(n - 1)
         \cup { s \o f : s \in Concats(n - 1), f \in QrFragments }

QrValues == Concats(MaxFragments)

UpperChar(c) ==
    IF \E i \in 1..Len(LowerLetters) : LowerLetters[i] = c
    THEN Upper[CHOOSE i \in 1..Len(LowerLetters) : LowerLetters[i] = c]
    ELSE c

UpperOf(s) == [i \in 1..Len(s) |-> UpperChar(s[i])]

Capitalize(s) == [i \in 1..Len(s) |-> IF i = 1 THEN UpperChar(s[i]) ELSE s[i]]

ColorTokens ==
    ColorKeys
    \cup { UpperOf(k) : k \in ColorKeys }
    \cup { Capitalize(k) : k \in ColorKeys }
    \cup { <<>>, <<"t","u","r","q","u","o","i","s","e">>, <<"l","i","g","h","t","g","r","e","y">>, <<"g","r","e","y">>, <<"r","e">>, <<"r","e","d","d">>, <<" ","r","e","d">>, <<"T","u","r","q","u","o","i","s","e">>, <<"b","l","a","c","k">> }

SpecialRows ==
    { [GoodRow EXCEPT !.qr_value = Text(q)] : q \in QrValues }
    \cup { [GoodRow EXCEPT !.color = Text(k)] : k \in ColorTokens }
    \cup { [GoodRow EXCEPT !.color = NaN], [GoodRow EXCEPT !.qr_value = NaN] }

----------------------------------------------------------------------------
(* State                                                                   *)

NoError == [type |-> "none", site |-> "none"]

Raised(type, site) == [type |-> type, site |-> site]

InitRun ==
    /\ pc = "start"
    /\ df = Table({}, <<>>)
    /\ idx = 0
    /\ canvas = "none"
    /\ ops = <<>>
    /\ tempFiles = {}
    /\ saved = FALSE
    /\ reported = <<>>
    /\ error = NoError

\* Any accepted grid and geometry, uniform rows.
InitLayout ==
    /\ config \in Configs
    /\ data_file = PathCsv
    /\ \E n \in 0..MaxRecords : table = Table(Fields, GoodRows(n))

\* The default sheet.
InitDefault ==
    /\ config = LabelGeneratorInit(<<>>)
    /\ data_file = PathCsv
    /\ \E n \in 0..MaxRecordsDefault : table = Table(Fields, GoodRows(n))

\* Any code value and colour token, after zero or more ordinary rows.
InitContent ==
    /\ config = SmallConfig
    /\ data_file = PathCsv
    /\ \E n \in 0..MaxGoodRowsBefore, r \in SpecialRows :
           table = Table(Fields, Append(GoodRows(n), r))

\* A table without one of the required columns.
InitMissingField ==
    /\ config = SmallConfig
    /\ data_file = PathCsv
    /\ \E n \in 0..MaxRecords, f \in Fields :
           table = Table(Fields \ {f}, GoodRows(n))

\* Any path.
InitPath ==
    /\ config = LabelGeneratorInit(<<>>)
    /\ data_file \in Paths
    /\ \E n \in 0..1 : table = Table(Fields, GoodRows(n))

Init ==
    /\ InitRun
    /\ \/ InitLayout
       \/ InitDefault
       \/ InitContent
       \/ InitMissingField
       \/ InitPath

----------------------------------------------------------------------------
(* generate_labels, step by step                                           *)

Abort(type, site) ==
    /\ error' = Raised(type, site)
    /\ pc' = "failed"

ShowPage == [op |-> "showPage", idx |-> idx, x |-> 0, y |-> 0,
             header |-> "none", fill |-> "none", image |-> FALSE]

LabelOp(fill, header) ==
    [op |-> "label", idx |-> idx, x |-> label_x(idx, config),
     y |-> label_y(idx, config), header |-> header, fill |-> fill,
     image |-> FALSE]

\* The drawing operations of one loop iteration up to the call of draw_label.
PageOps == IF new_page(idx, config) THEN <<ShowPage>> ELSE <<>>

InLoop ==
    /\ pc = "loop"
    /\ idx < Len(df.rows)

Placed ==
    /\ InLoop
    /\ labels_per_page(config) # 0

Row == df.rows[idx + 1]

\* read_data raises ValueError: nothing after line 266 runs.
ReadDataUnsupported ==
    /\ pc = "start"
    /\ read_data(data_file) = "ValueError"
    /\ Abort("ValueError", "read_data")
    /\ UNCHANGED <<config, data_file, table, df, idx, canvas, ops,
                   tempFiles, saved, reported>>

\* pandas cannot read the file (missing, unreadable, malformed).
ReadDataFails ==
    /\ pc = "start"
    /\ read_data(data_file) # "ValueError"
    /\ Abort("IOError", "read_data")
    /\ UNCHANGED <<config, data_file, table, df, idx, canvas, ops,
                   tempFiles, saved, reported>>

\* Lines 266-280: the table is read and the canvas is created.
ReadDataOk ==
    /\ pc = "start"
    /\ read_data(data_file) # "ValueError"
    /\ df' = table
    /\ canvas' = "open"
    /\ idx' = 0
    /\ pc' = "loop"
    /\ UNCHANGED <<config, data_file, table, ops, tempFiles, saved,
                   reported, error>>

\* Line 285: idx % labels_per_page with an empty grid.
PositionFails ==
    /\ InLoop
    /\ labels_per_page(config) = 0
    /\ Abort("ZeroDivisionError", "position")
    /\ UNCHANGED <<config, data_file, table, df, idx, canvas, ops,
                   tempFiles, saved, reported>>

\* Lines 285-304: row['...'] raises KeyError for an absent column.
RowAccessFails ==
    /\ Placed
    /\ ~ (Fields \subseteq df.fields)
    /\ ops' = ops \o PageOps
    /\ Abort("KeyError", "row_access")
    /\ UNCHANGED <<config, data_file, table, df, idx, canvas, tempFiles,
                   saved, reported>>

\* draw_label line 146: color_name.lower() on a cell that is not text.
DrawLabelColorFails ==
    /\ Placed
    /\ Fields \subseteq df.fields
    /\ ~ Row.color.isText
    /\ ops' = ops \o PageOps \o <<LabelOp("none", "none")>>
    /\ Abort("AttributeError", "draw_label")
    /\ UNCHANGED <<config, data_file, table, df, idx, canvas, tempFiles,
                   saved, reported>>

\* draw_label line 171: "STOWAGE" in qr_value on a cell that is not text.
DrawLabelHeaderFails ==
    /\ Placed
    /\ Fields \subseteq df.fields
    /\ Row.color.isText
    /\ ~ Row.qr_value.isText
    /\ ops' = ops \o PageOps
                  \o <<LabelOp(get_background_color(Row.color.text), "none")>>
    /\ Abort("TypeError", "draw_label")
    /\ UNCHANGED <<config, data_file, table, df, idx, canvas, tempFiles,
                   saved, reported>>

\* Lines 285-307 and draw_label lines 127-217: the label is placed and
\* drawn up to the point where the QR image has been written to disk.
DrawLabelBegin ==
    /\ Placed
    /\ Fields \subseteq df.fields
    /\ Row.color.isText
    /\ Row.qr_value.isText
    /\ ops' = ops \o PageOps
                  \o <<LabelOp(get_background_color(Row.color.text),
                               header_text(Row.qr_value.text))>>
    /\ tempFiles' = tempFiles \cup {temp_qr_file(Row.aisle, Row.ambient)}
    /\ pc' = "draw_image"
    /\ UNCHANGED <<config, data_file, table, df, idx, canvas, saved,
                   reported, error>>

\* draw_label lines 220-226: the image is placed, the file removed, and the
\* loop moves on.
DrawImageOk ==
    /\ pc = "draw_image"
    /\ ops' = [ops EXCEPT ![Len(ops)].image = TRUE]
    /\ tempFiles' = tempFiles \ {temp_qr_file(Row.aisle, Row.ambient)}
    /\ idx' = idx + 1
    /\ pc' = "loop"
    /\ UNCHANGED <<config, data_file, table, df, canvas, saved, reported,
                   error>>

\* Mutant: the failure is swallowed and the loop continues.
DrawImageFailsSkipped ==
    /\ pc = "draw_image"
    /\ error' = Raised("IOError", "draw_label")
    /\ idx' = idx + 1
    /\ pc' = "loop"
    /\ UNCHANGED <<config, data_file, table, df, canvas, ops, tempFiles,
                   saved, reported>>

\* draw_label lines 220-222: canvas.drawImage raises; lines 225-226 never run.
DrawImageFails ==
    /\ pc = "draw_image"
    /\ Abort("IOError", "draw_label")
    /\ UNCHANGED <<config, data_file, table, df, idx, canvas, ops,
                   tempFiles, saved, reported>>

\* Lines 310-311: the document is saved and the summary printed.
Save ==
    /\ pc = "loop"
    /\ idx = Len(df.rows)
    /\ labels_per_page(config) # 0
    /\ saved' = TRUE
    /\ reported' = <<page_count(Len(df.rows), labels_per_page(config))>>
    /\ pc' = "done"
    /\ UNCHANGED <<config, data_file, table, df, idx, canvas, ops,
                   tempFiles, error>>

\* Lines 310-311 with an empty grid: the document is saved, then the
\* summary's division raises.
SaveThenSummaryFails ==
    /\ pc = "loop"
    /\ idx = Len(df.rows)
    /\ labels_per_page(config) = 0
    /\ saved' = TRUE
    /\ Abort("ZeroDivisionError", "summary")
    /\ UNCHANGED <<config, data_file, table, df, idx, canvas, ops,
                   tempFiles, reported>>

Next ==
    \/ ReadDataUnsupported
    \/ ReadDataFails
    \/ ReadDataOk
    \/ PositionFails
    \/ RowAccessFails
    \/ DrawLabelColorFails
    \/ DrawLabelHeaderFails
    \/ DrawLabelBegin
    \/ DrawImageOk
    \/ DrawImageFails
    \/ Save
    \/ SaveThenSummaryFails

Spec == Init /\ [][Next]_vars

----------------------------------------------------------------------------
(* Properties                                                              *)

LabelOps == { k \in 1..Len(ops) : ops[k].op = "label" }

\* Number of page breaks issued before the k-th drawing operation.
BreaksBefore(k) == Cardinality({ j \in 1..(k - 1) : ops[j].op = "showPage" })

PerPage == config.columns * config.rows

\* Least p with p * per >= total, i.e. ceil(total / per).
Ceil(total, per) ==
    CHOOSE p \in 0..total :
        /\ p * per >= total
        /\ \A q \in 0..(p - 1) : q * per < total

\* C1: when generate_labels completes with columns*rows >= 1, the page count
\* it reports is ceil(total / labels_per_page): 0 for an empty table, 1 for
\* 1..labels_per_page records, 2 for labels_per_page + 1 records.
C1_PageCount ==
    (pc = "done" /\ PerPage >= 1) =>
        LET total == Len(df.rows) IN
        /\ reported = <<Ceil(total, PerPage)>>
        /\ (total = 0 => reported = <<0>>)
        /\ (total \in 1..PerPage => reported = <<1>>)
        /\ (total = PerPage + 1 => reported = <<2>>)

C1_Witness ==
    /\ pc = "done"
    /\ PerPage > 1
    /\ Len(df.rows) = PerPage + 1
    /\ reported = <<2>>

\* C2: a page break immediately precedes the drawing of label idx exactly
\* when idx mod labels_per_page = 0 and idx > 0, and the number of page
\* breaks issued before label idx is drawn is idx div (columns*rows).
C2_PageBreaks ==
    \A k \in LabelOps :
        LET i == ops[k].idx IN
        /\ (k > 1 /\ ops[k - 1].op = "showPage") <=> (i % PerPage = 0 /\ i > 0)
        /\ BreaksBefore(k) = i \div PerPage

C2_Witness ==
    \E k \in LabelOps :
        /\ PerPage > 1
        /\ ops[k].idx = 2 * PerPage
        /\ ops[k - 1].op = "showPage"
        /\ BreaksBefore(k) = 2
        /\ ops[k].image

\* C3: the middle-section header follows the priority STOWAGE > CHILLER >
\* FROZEN > default by substring containment, every text code value
\* (the empty one included) gets a header, and a code containing both
\* STOWAGE and CHILLER gets AMBIENT.
C3_HeaderPriority ==
    /\ \A k \in LabelOps :
        LET cell == df.rows[ops[k].idx + 1].qr_value
            q == cell.text
            h == ops[k].header
        IN  (cell.isText /\ ops[k].fill # "none") =>
                /\ h \in {"AMBIENT", "CHILLED", "FREEZER"}
                /\ Contains(STOWAGE, q) => h = "AMBIENT"
                /\ (~ Contains(STOWAGE, q) /\ Contains(CHILLER, q))
                       => h = "CHILLED"
                /\ (~ Contains(STOWAGE, q) /\ ~ Contains(CHILLER, q)
                        /\ Contains(FROZEN, q)) => h = "FREEZER"
                /\ (~ Contains(STOWAGE, q) /\ ~ Contains(CHILLER, q)
                        /\ ~ Contains(FROZEN, q)) => h = "AMBIENT"
                /\ (Contains(STOWAGE, q) /\ Contains(CHILLER, q))
                       => h = "AMBIENT"
    /\ error.type = "TypeError" => ~ df.rows[idx + 1].qr_value.isText

C3_Witness ==
    \E k \in LabelOps :
        /\ df.rows[ops[k].idx + 1].qr_value.text = CHILLER \o STOWAGE
        /\ ops[k].header = "AMBIENT"
        /\ ops[k].image

\* C4: the corner handed to draw_label for index idx is
\* x = left_margin + col*(label_width + h_gap) and
\* y = page_height - top_margin - (row+1)*label_height - row*v_gap with
\* pos = idx mod (columns*rows), row = pos div columns, col = pos mod columns;
\* index idx + labels_per_page gets the same corner one page later.
C4_Corner ==
    /\ \A k \in LabelOps :
        LET pos == ops[k].idx % PerPage
            row == pos \div config.columns
            col == pos % config.columns
        IN  /\ ops[k].x = config.left_margin
                            + col * (config.label_width + config.h_gap)
            /\ ops[k].y = config.page_height - config.top_margin
                            - (row + 1) * config.label_height
                            - row * config.v_gap
    /\ \A k1, k2 \in LabelOps :
        ops[k2].idx = ops[k1].idx + PerPage =>
            /\ ops[k2].x = ops[k1].x
            /\ ops[k2].y = ops[k1].y
            /\ BreaksBefore(k2) = BreaksBefore(k1) + 1

C4_Witness ==
    \E k1, k2 \in LabelOps :
        /\ config.columns > 1
        /\ config.rows > 1
        /\ config.v_gap > 0
        /\ ops[k1].idx = PerPage - 1
        /\ ops[k2].idx = 2 * PerPage - 1
        /\ ops[k2].x = ops[k1].x
        /\ ops[k2].y = ops[k1].y
        /\ ops[k2].image

\* C5: the temporary QR file of a label does not exist once draw_label has
\* ended, whether it returned or raised.
C5_NoLeak ==
    pc \in {"loop", "done", "failed"} => tempFiles = {}

\* C6: a run is all-or-nothing: after a fatal error in reading, in a row's
\* fields or in drawing a label the document is not saved, and a saved
\* document holds every record, fully drawn.
C6_AllOrNothing ==
    /\ error.site \in {"read_data", "position", "row_access", "draw_label"}
           => (~ saved /\ pc = "failed")
    /\ saved =>
        /\ canvas = "open"
        /\ idx = Len(df.rows)
        /\ Cardinality(LabelOps) = Len(df.rows)
        /\ \A k \in LabelOps : ops[k].image
        /\ \A i \in 0..(Len(df.rows) - 1) : \E k \in LabelOps : ops[k].idx = i

C6_Witness ==
    /\ pc = "failed"
    /\ error.site = "draw_label"
    /\ idx > 0
    /\ \E k \in LabelOps : ops[k].image
    /\ ~ saved

\* The extension of a path: from its last dot to its end (empty if no dot).
Extension(path) ==
    IF \E i \in 1..Len(path) : path[i] = "."
    THEN LET last == CHOOSE i \in 1..Len(path) :
                        /\ path[i] = "."
                        /\ \A j \in (i + 1)..Len(path) : path[j] # "."
         IN SubSeq(path, last, Len(path))
    ELSE <<>>

\* C7: with an extension other than .csv, .xlsx, .xls the run fails with
\* the unsupported-format error before any rendering: no canvas, no page
\* break, no label, no temporary file, nothing saved.
C7_UnsupportedFirst ==
    (Extension(data_file) \notin {ExtCsv, ExtXlsx, ExtXls} /\ pc # "start") =>
        /\ pc = "failed"
        /\ error = Raised("ValueError", "read_data")
        /\ canvas = "none"
        /\ ops = <<>>
        /\ tempFiles = {}
        /\ ~ saved

C7_Witness ==
    /\ data_file = <<"a",".","C","S","V">>
    /\ pc = "failed"
    /\ error.type = "ValueError"

FillOf(k) == ops[k].fill

TokenOf(k) == df.rows[ops[k].idx + 1].color

\* C8 as stated: every token that is not a key of the table is filled like
\* "white", and every key is filled with its own colour.
C8_Original ==
    \A k \in LabelOps :
        TokenOf(k).isText =>
            /\ TokenOf(k).text \notin ColorKeys
                   => FillOf(k) = get_background_color(KeyWhite)
            /\ TokenOf(k).text \in ColorKeys
                   => FillOf(k) = color_dict[TokenOf(k).text]

\* C8 (amended): the table is consulted with the lower-cased token: a token
\* whose lower-cased form is not a key is filled like "white" without an
\* error, and a token whose lower-cased form is a key is filled with that
\* key's colour.
C8_Fallback ==
    /\ \A k \in LabelOps :
        TokenOf(k).isText =>
            /\ Lower(TokenOf(k).text) \notin ColorKeys
                   => /\ FillOf(k) = "colors.white"
                      /\ FillOf(k) = get_background_color(KeyWhite)
            /\ Lower(TokenOf(k).text) \in ColorKeys
                   => FillOf(k) = color_dict[Lower(TokenOf(k).text)]
    /\ error.type = "AttributeError" => ~ df.rows[idx + 1].color.isText

C8_Witness ==
    \E k1, k2 \in LabelOps :
        /\ TokenOf(k1).text = <<"t","u","r","q","u","o","i","s","e">>
        /\ FillOf(k1) = "colors.white"
        /\ ops[k1].image
        /\ TokenOf(k2).text = KeyBlue
        /\ FillOf(k2) = "colors.blue"

SamePage(k1, k2) == BreaksBefore(k1) = BreaksBefore(k2)

RowOf(k) == (ops[k].idx % PerPage) \div config.columns

ColOf(k) == (ops[k].idx % PerPage) % config.columns

LeftToRight ==
    \A k1, k2 \in LabelOps :
        (/\ ops[k1].idx < ops[k2].idx
         /\ SamePage(k1, k2)
         /\ RowOf(k1) = RowOf(k2)
         /\ ColOf(k1) < ColOf(k2)) => ops[k1].x < ops[k2].x

\* C9 as stated: left-to-right fill for every accepted configuration.
C9_Original == LeftToRight

\* C9 (amended): left-to-right fill holds whenever the column pitch
\* label_width + h_gap is positive.
C9_LeftToRight ==
    config.label_width + config.h_gap > 0 => LeftToRight

C9_Witness ==
    /\ config.label_width + config.h_gap > 0
    /\ config # DefaultConfig
    /\ \E k1, k2 \in LabelOps :
        /\ SamePage(k1, k2)
        /\ RowOf(k1) = RowOf(k2)
        /\ RowOf(k1) > 0
        /\ ColOf(k1) < ColOf(k2)
        /\ ops[k1].x < ops[k2].x
        /\ ops[k2].image

Overlap(k1, k2) ==
    /\ ops[k1].x < ops[k2].x + config.label_width
    /\ ops[k2].x < ops[k1].x + config.label_width
    /\ ops[k1].y < ops[k2].y + config.label_height
    /\ ops[k2].y < ops[k1].y + config.label_height

\* C10: with the default configuration every label's bounding box lies
\* within the page, and two labels on the same page occupy distinct cells
\* and do not overlap.
C10_DefaultFits ==
    (/\ config.page_width = 61200 /\ config.page_height = 79200
     /\ config.label_width = 18900 /\ config.label_height = 7200
     /\ config.columns = 3 /\ config.rows = 10
     /\ config.left_margin = 1368 /\ config.top_margin = 3600
     /\ config.h_gap = 900 /\ config.v_gap = 0) =>
        /\ \A k \in LabelOps :
            /\ 0 <= ops[k].x
            /\ ops[k].x + config.label_width <= config.page_width
            /\ 0 <= ops[k].y
            /\ ops[k].y + config.label_height <= config.page_height
        /\ \A k1, k2 \in LabelOps :
            (k1 # k2 /\ SamePage(k1, k2)) =>
                /\ <<RowOf(k1), ColOf(k1)>> # <<RowOf(k2), ColOf(k2)>>
                /\ ~ Overlap(k1, k2)

C10_Witness ==
    /\ config.columns = 3 /\ config.rows = 10
    /\ config.left_margin = 1368 /\ config.h_gap = 900
    /\ \E k1, k2 \in LabelOps :
        /\ ops[k1].idx = 29
        /\ ops[k2].idx = 30
        /\ ~ SamePage(k1, k2)
        /\ ops[k2].image

====
